---- MODULE Spec2Model ----
(***************************************************************************)
(* A model of the rocBLAS client test harness for spr2:                    *)
(*   clients/include/utility.hpp          rocblas_local_handle             *)
(*   clients/include/blas2/testing_spr2.hpp                                *)
(*        testing_spr2_bad_arg, testing_spr2                               *)
(*                                                                         *)
(* Three specifications share the module:                                  *)
(*   SpecHandle  objects of rocblas_local_handle constructed and leaving   *)
(*               scope in any nesting                                      *)
(*   SpecSizes   the argument check and the buffer size arithmetic of      *)
(*               testing_spr2 on the edge values of rocblas_int            *)
(*   Spec        one run of testing_spr2_bad_arg or of testing_spr2        *)
(***************************************************************************)
EXTENDS Integers, Sequences, FiniteSets, TLC

VARIABLES
    pc,            \* position of the running test function
    test,          \* "bad_arg" or "spr2": the function that runs
    arg,           \* const Arguments& arg
    loc,           \* the scalar locals of the running function
    host,          \* host_vector objects, by name
    dev,           \* device_vector objects, by name
    pending,       \* kernels queued on the handle's stream, not yet executed
    pointer_mode,  \* pointer mode last set on the run's handle
    trace,         \* the calls the function has made, in order
    stack,         \* rocblas_local_handle objects alive, innermost last
    lib,           \* the handles the library has created and destroyed
    seen           \* what the last conversion operator returned

vars == <<pc, test, arg, loc, host, dev, pending, pointer_mode, trace, stack, lib, seen>>

(***************************************************************************)
(* Bounds of the model.                                                    *)
(***************************************************************************)
\* rocblas_int is 32 bits wide and size_t 64; the model keeps the 1:2 ratio
\* at a width whose values TLC can hold.
IntBits == 8
\* arg.N ranges over -1 .. MaxN in Spec
MaxN == 2
\* arg.incx and arg.incy range over -MaxInc .. MaxInc in Spec
MaxInc == 1
\* arg.cold_iters and arg.iters range over -1 .. MaxIters in Spec
MaxIters == 1
\* rocblas_local_handle objects constructed in one behaviour of SpecHandle
MaxObjects == 5
\* allocations that fail among those of one group of declarations
MaxFailures == 1

Max(a, b) == IF a >= b THEN a ELSE b
Abs(a) == IF a >= 0 THEN a ELSE -a

(***************************************************************************)
(* Integer types.                                                          *)
(***************************************************************************)
SizeBits == 2 * IntBits
IntMin == -(2 ^ (IntBits - 1))
IntMax == 2 ^ (IntBits - 1) - 1
SizeMod == 2 ^ SizeBits
RocblasInt == IntMin .. IntMax

\* two's complement wrap of a signed result
WrapInt(v) == ((v - IntMin) % (2 ^ IntBits)) + IntMin

\* conversion of a signed value to size_t
ToSize(v) == v % SizeMod

\* Signed overflow is undefined: the build may wrap the result in the
\* narrow register or carry the exact value into the wide one.
SignedOutcomes(v) == IF v \in RocblasInt THEN {v} ELSE {WrapInt(v), v}

\* incx >= 0 ? incx : -incx, assigned to a size_t
AbsIncOutcomes(inc) == IF inc >= 0 THEN {ToSize(inc)}
                       ELSE {ToSize(r) : r \in SignedOutcomes(-inc)}

\* size_t(N) * (N + 1) / 2
SizeAOutcomes(N) == {((ToSize(N) * ToSize(r)) % SizeMod) \div 2 : r \in SignedOutcomes(N + 1)}

\* size_t(N) * abs_inc
SizeVec(N, abs_inc) == (ToSize(N) * abs_inc) % SizeMod


\* an argument check that turns N == 0 away as well
ArgCheckFailsOnZero(N, incx, incy) == N <= 0 \/ incx = 0 \/ incy = 0

\* if(N < 0 || !incx || !incy)
ArgCheckFails(N, incx, incy) == N < 0 \/ incx = 0 \/ incy = 0

(***************************************************************************)
(* rocblas_local_handle                                                    *)
(***************************************************************************)
NullHandle == 0
NoLib == [made |-> 0, destroys |-> <<>>]
NoSeen == [obj |-> 0, val |-> NullHandle]

\* rocblas_create_handle(&handle): the library makes a new handle
CreateHandle(l) == [l EXCEPT !.made = l.made + 1]
NewHandle(l) == l.made + 1

\* rocblas_destroy_handle(h)
DestroyHandle(l, h) == [l EXCEPT !.destroys = Append(l.destroys, h)]

\* a handle the library made and has not destroyed
IsLive(l, h) == h \in 1 .. l.made /\ \A i \in 1 .. Len(l.destroys) : l.destroys[i] # h

\* the object after its constructor: `made` remembers what create produced
Constructed(l) == [handle |-> NewHandle(l), made |-> NewHandle(l)]


\* a destructor that hands the library a null handle
DtorArgNull(obj) == NullHandle

\* the argument of rocblas_destroy_handle in the destructor
DtorArg(obj) == obj.handle

\* operator rocblas_handle&() and operator const rocblas_handle&() const
Conversion(obj) == obj.handle

\* rocblas_local_handle::rocblas_local_handle()
Construct ==
    /\ stack' = Append(stack, Constructed(lib))
    /\ lib' = CreateHandle(lib)

\* rocblas_local_handle::~rocblas_local_handle() of the innermost object
Destruct ==
    /\ stack # <<>>
    /\ lib' = DestroyHandle(lib, DtorArg(stack[Len(stack)]))
    /\ stack' = SubSeq(stack, 1, Len(stack) - 1)

mainVars == <<pc, test, arg, loc, host, dev, pending, pointer_mode, trace>>

IdleMain ==
    /\ pc = "idle"
    /\ test = "none"
    /\ arg = [N |-> 0]
    /\ loc = [N |-> 0]
    /\ host = <<>>
    /\ dev = <<>>
    /\ pending = <<>>
    /\ pointer_mode = "rocblas_pointer_mode_host"
    /\ trace = <<>>

InitHandle ==
    /\ IdleMain
    /\ stack = <<>>
    /\ lib = NoLib
    /\ seen = NoSeen

\* a block declares a rocblas_local_handle
HConstruct ==
    /\ lib.made < MaxObjects
    /\ Construct
    /\ UNCHANGED <<seen, mainVars>>

\* the innermost object leaves scope
HScopeExit ==
    /\ Destruct
    /\ UNCHANGED <<seen, mainVars>>

\* an object alive is passed where a rocblas_handle is expected
HConvert ==
    /\ \E i \in 1 .. Len(stack) :
          seen' = [obj |-> stack[i].made, val |-> Conversion(stack[i])]
    /\ UNCHANGED <<stack, lib, mainVars>>

NextHandle == HConstruct \/ HScopeExit \/ HConvert

SpecHandle == InitHandle /\ [][NextHandle]_vars

(***************************************************************************)
(* The library and the reference BLAS, as the harness calls them.          *)
(***************************************************************************)
HostNames == {"hA_1", "hA_2", "hA_gold", "hx", "hy", "halpha"}
DevNames(t) == IF t = "bad_arg" THEN {"dA_1", "dx", "dy"}
               ELSE {"dA_1", "dA_2", "dx", "dy", "d_alpha"}
AllDevNames == {"dA_1", "dA_2", "dx", "dy", "d_alpha"}

\* the k-th value the seeded generator behind rocblas_init hands out
RandomValue(k) == ((k * 3) % 7) + 1

\* the status rocblas_spr2 returns: handle, fill mode, sizes, quick return,
\* pointers, in that order
Spr2Status(handle, uplo, N, alpha, x, incx, y, incy, A) ==
    IF handle = NullHandle THEN "rocblas_status_invalid_handle"
    ELSE IF uplo \notin {"U", "L"} THEN "rocblas_status_invalid_value"
    ELSE IF N < 0 \/ incx = 0 \/ incy = 0 THEN "rocblas_status_invalid_size"
    ELSE IF N = 0 THEN "rocblas_status_success"
    ELSE IF "null" \in {alpha, x, y, A} THEN "rocblas_status_invalid_pointer"
    ELSE "rocblas_status_success"

\* element i (from 0) of a strided vector of N elements
VecAt(v, N, inc, i) == IF inc > 0 THEN v[1 + i * inc] ELSE v[1 + (i - (N - 1)) * inc]

\* position (from 1) of A(i,j) in packed storage
PackedIndex(uplo, N, i, j) ==
    IF uplo = "U" THEN 1 + i + (j * (j + 1)) \div 2
    ELSE 1 + (i - j) + (j * (2 * N - j + 1)) \div 2

InTriangle(uplo, i, j) == IF uplo = "U" THEN i <= j ELSE i >= j

\* A := A + alpha*x*y^T + alpha*y*x^T on the stored triangle
Spr2Update(uplo, N, alpha, x, incx, y, incy, A) ==
    [p \in 1 .. Len(A) |->
        LET ij == CHOOSE q \in (0 .. N - 1) \X (0 .. N - 1) :
                     InTriangle(uplo, q[1], q[2]) /\ PackedIndex(uplo, N, q[1], q[2]) = p
            i == ij[1]
            j == ij[2]
        IN A[p] + alpha * (VecAt(x, N, incx, i) * VecAt(y, N, incy, j)
                           + VecAt(y, N, incy, i) * VecAt(x, N, incx, j))]

\* the error norm_check_general reports: zero exactly when the two agree
NormError(gold, got) ==
    Cardinality({p \in 1 .. Len(gold) : gold[p] # got[p]})

(***************************************************************************)
(* The state of one run.                                                   *)
(***************************************************************************)
Uplos == {"U", "L"}
Alphas == {2}

\* the argument sets a run of testing_spr2 is given
ArgSet == [N : -1 .. MaxN, incx : -MaxInc .. MaxInc, incy : -MaxInc .. MaxInc,
           alpha : Alphas, uplo : Uplos,
           unit_check : BOOLEAN, norm_check : BOOLEAN, timing : BOOLEAN]

\* testing_spr2_bad_arg reads arg.fortran alone, which picks one of two
\* bindings of the same routine
NoArg == [N |-> 0, incx |-> 0, incy |-> 0, alpha |-> 0, uplo |-> "U",
          unit_check |-> FALSE, norm_check |-> FALSE, timing |-> FALSE]

NoLoc == [N |-> 0, incx |-> 0, incy |-> 0, h_alpha |-> 0, uplo |-> "U",
          abs_incx |-> 0, abs_incy |-> 0, size_A |-> 0, size_x |-> 0, size_y |-> 0,
          assigned |-> {}, rocblas_error_1 |-> 0, rocblas_error_2 |-> 0,
          number_cold_calls |-> 0, number_hot_calls |-> 0, iter |-> 0, k |-> 1]

NoHost == [n \in HostNames |-> [state |-> "none", data |-> <<>>]]
NoDev == [n \in AllDevNames |-> [state |-> "none", size |-> 0, written |-> FALSE, data |-> <<>>]]

Ev(op, a, b) == [op |-> op, a |-> a, b |-> b]

\* the handle the run passes to the library
Handle == Conversion(stack[Len(stack)])

\* kernels launched so far, and those the device has finished
Launched == Cardinality({i \in 1 .. Len(trace) : trace[i].op = "spr2" /\ trace[i].launch})
Executed == Launched - Len(pending)

\* one call of rocblas_spr2_fn: the entry of the trace and the kernel queued
\* (ok: the device accepts the launch of a call that passed validation)
Spr2Event(phase, handle, uplo, alpha, x, y, A, expect, ok) ==
    LET v == Spr2Status(handle, uplo, loc.N, alpha, x, loc.incx, y, loc.incy, A)
        st == IF v = "rocblas_status_success" /\ ~ok
              THEN "rocblas_status_internal_error" ELSE v
    IN [op |-> "spr2", phase |-> phase, handle |-> handle, uplo |-> uplo, N |-> loc.N,
        alpha |-> alpha, x |-> x, incx |-> loc.incx, y |-> y, incy |-> loc.incy, A |-> A,
        mode |-> pointer_mode, expect |-> expect, status |-> st,
        live |-> IsLive(lib, handle),
        alloc |-> \A b \in {alpha, x, y, A} \cap AllDevNames : dev[b].state = "alloc",
        launch |-> (st = "rocblas_status_success" /\ loc.N > 0)]

Kernel(e) == [A |-> e.A, alpha |-> e.alpha, h_alpha |-> loc.h_alpha, uplo |-> e.uplo]

Queue(e) == IF e.launch THEN Append(pending, Kernel(e)) ELSE pending

InitRun ==
    /\ pc = "start"
    /\ \/ test = "bad_arg" /\ arg = NoArg
       \/ test = "spr2" /\ arg \in ArgSet
    /\ loc = NoLoc
    /\ host = NoHost
    /\ dev = NoDev
    /\ pending = <<>>
    /\ pointer_mode = "rocblas_pointer_mode_host"
    /\ trace = <<>>
    /\ stack = <<>>
    /\ lib = NoLib
    /\ seen = NoSeen

\* a return statement, or the end of the function body
Return == pc' = "ret"

(***************************************************************************)
(* testing_spr2_bad_arg and testing_spr2, statement by statement.          *)
(***************************************************************************)
\* the declarations up to the handle (alpha = 0.6 of testing_spr2_bad_arg is
\* passed by address only and never read: it keeps the value of NoLoc)
Enter ==
    /\ pc = "start"
    /\ Construct
    /\ loc' = IF test = "bad_arg"
              THEN [NoLoc EXCEPT !.N = 100, !.incx = 1, !.incy = 1, !.uplo = "U"]
              ELSE [NoLoc EXCEPT !.N = arg.N, !.incx = arg.incx, !.incy = arg.incy,
                                 !.h_alpha = arg.alpha, !.uplo = arg.uplo]
    /\ pc' = IF test = "bad_arg" THEN "sizes" ELSE "argcheck"
    /\ UNCHANGED <<test, arg, host, dev, pending, pointer_mode, trace, seen>>

\* argument check before allocating invalid memory
ArgCheck ==
    /\ pc = "argcheck"
    /\ IF ArgCheckFails(loc.N, loc.incx, loc.incy)
       THEN LET e == Spr2Event("argcheck", Handle, loc.uplo, "null", "null", "null", "null",
                               "rocblas_status_invalid_size", TRUE)
            IN /\ trace' = Append(trace, e)
               /\ pending' = Queue(e)
               /\ Return
       ELSE /\ pc' = "sizes"
            /\ UNCHANGED <<trace, pending>>
    /\ UNCHANGED <<test, arg, loc, host, dev, pointer_mode, stack, lib, seen>>

\* abs_incx, abs_incy, size_A, size_x, size_y
ComputeSizes ==
    /\ pc = "sizes"
    /\ \E ax \in AbsIncOutcomes(loc.incx), ay \in AbsIncOutcomes(loc.incy),
          sa \in SizeAOutcomes(loc.N) :
          loc' = [loc EXCEPT !.abs_incx = ax, !.abs_incy = ay, !.size_A = sa,
                             !.size_x = SizeVec(loc.N, ax), !.size_y = SizeVec(loc.N, ay)]
    /\ pc' = IF test = "bad_arg" THEN "devalloc" ELSE "hostalloc"
    /\ UNCHANGED <<test, arg, host, dev, pending, pointer_mode, trace, stack, lib, seen>>

\* the element count each host_vector is constructed with
HostSize(n) == CASE n \in {"hA_1", "hA_2", "hA_gold"} -> loc.size_A
                 [] n = "hx" -> loc.size_x
                 [] n = "hy" -> loc.size_y
                 [] n = "halpha" -> 1

\* the element count each device_vector is constructed with
DevSize(n) == CASE n \in {"dA_1", "dA_2"} -> loc.size_A
                [] n = "dx" -> loc.size_x
                [] n = "dy" -> loc.size_y
                [] n = "d_alpha" -> 1

Zeros(n) == [p \in 1 .. n |-> 0]

\* the allocations of a group that the environment may refuse
FailSets(S) == {F \in SUBSET S : Cardinality(F) <= MaxFailures}

\* host_vector<T> hA_1(size_A) ... halpha(1); any of the allocations may fail
HostAlloc ==
    /\ pc = "hostalloc"
    /\ \E failed \in FailSets(HostNames) :
          host' = [n \in HostNames |->
                      IF n \in failed THEN [state |-> "failed", data |-> <<>>]
                      ELSE [state |-> "alloc", data |-> Zeros(HostSize(n))]]
    /\ pc' = "hostcheck"
    /\ UNCHANGED <<test, arg, loc, dev, pending, pointer_mode, trace, stack, lib, seen>>

\* CHECK_HIP_ERROR(h*.memcheck()); halpha[0] = h_alpha
HostCheck ==
    /\ pc = "hostcheck"
    /\ IF \E n \in HostNames : host[n].state = "failed"
       THEN Return /\ UNCHANGED host
       ELSE /\ host' = [host EXCEPT !["halpha"].data = <<loc.h_alpha>>]
            /\ pc' = "devalloc"
    /\ UNCHANGED <<test, arg, loc, dev, pending, pointer_mode, trace, stack, lib, seen>>

\* the device vectors in the order of their declarations
DevOrder == <<"dA_1", "dA_2", "dx", "dy", "d_alpha">>

\* device_vector<T> dA_1(size_A) ...; any of the allocations may fail
DevAlloc ==
    /\ pc = "devalloc"
    /\ \E failed \in FailSets(DevNames(test)) :
          /\ dev' = [n \in AllDevNames |->
                        IF n \notin DevNames(test) THEN dev[n]
                        ELSE [state |-> IF n \in failed THEN "failed" ELSE "alloc",
                              size |-> DevSize(n), written |-> FALSE, data |-> <<>>]]
          /\ trace' = trace \o [i \in 1 .. Len(SelectSeq(DevOrder,
                                     LAMBDA n : n \in DevNames(test) /\ n \notin failed)) |->
                                 Ev("hipMalloc", SelectSeq(DevOrder,
                                     LAMBDA n : n \in DevNames(test) /\ n \notin failed)[i], "")]
    /\ pc' = "devcheck"
    /\ UNCHANGED <<test, arg, loc, host, pending, pointer_mode, stack, lib, seen>>

\* CHECK_DEVICE_ALLOCATION(d*.memcheck())
DevCheck ==
    /\ pc = "devcheck"
    /\ IF \E n \in DevNames(test) : dev[n].state = "failed"
       THEN Return
       ELSE pc' = IF test = "bad_arg" THEN "probe" ELSE "init"
    /\ UNCHANGED <<test, arg, loc, host, dev, pending, pointer_mode, trace, stack, lib, seen>>


\* the probes with the second one nulling y, as the third does
BadArgProbesRepeated == <<
    [handle |-> "handle", uplo |-> "F", x |-> "dx", y |-> "dy", A |-> "dA_1",
     expect |-> "rocblas_status_invalid_value"],
    [handle |-> "handle", uplo |-> "U", x |-> "dx", y |-> "null", A |-> "dA_1",
     expect |-> "rocblas_status_invalid_pointer"],
    [handle |-> "handle", uplo |-> "U", x |-> "dx", y |-> "null", A |-> "dA_1",
     expect |-> "rocblas_status_invalid_pointer"],
    [handle |-> "handle", uplo |-> "U", x |-> "dx", y |-> "dy", A |-> "null",
     expect |-> "rocblas_status_invalid_pointer"],
    [handle |-> "nullptr", uplo |-> "U", x |-> "dx", y |-> "dy", A |-> "dA_1",
     expect |-> "rocblas_status_invalid_handle"] >>

\* the probes of testing_spr2_bad_arg: what each passes and what it expects
BadArgProbes == <<
    [handle |-> "handle", uplo |-> "F", x |-> "dx", y |-> "dy", A |-> "dA_1",
     expect |-> "rocblas_status_invalid_value"],
    [handle |-> "handle", uplo |-> "U", x |-> "null", y |-> "dy", A |-> "dA_1",
     expect |-> "rocblas_status_invalid_pointer"],
    [handle |-> "handle", uplo |-> "U", x |-> "dx", y |-> "null", A |-> "dA_1",
     expect |-> "rocblas_status_invalid_pointer"],
    [handle |-> "handle", uplo |-> "U", x |-> "dx", y |-> "dy", A |-> "null",
     expect |-> "rocblas_status_invalid_pointer"],
    [handle |-> "nullptr", uplo |-> "U", x |-> "dx", y |-> "dy", A |-> "dA_1",
     expect |-> "rocblas_status_invalid_handle"] >>

\* EXPECT_ROCBLAS_STATUS(rocblas_spr2_fn(...), ...): the run goes on either way
BadArgProbe ==
    /\ pc = "probe"
    /\ LET p == BadArgProbes[loc.k]
           e == Spr2Event("probe", IF p.handle = "handle" THEN Handle ELSE NullHandle,
                          p.uplo, "&alpha", p.x, p.y, p.A, p.expect, TRUE)
       IN /\ trace' = Append(trace, e)
          /\ pending' = Queue(e)
    /\ loc' = [loc EXCEPT !.k = loc.k + 1]
    /\ IF loc.k = Len(BadArgProbes) THEN Return ELSE pc' = "probe"
    /\ UNCHANGED <<test, arg, host, dev, pointer_mode, stack, lib, seen>>

\* rocblas_init(hA_1, true); rocblas_init(hx, false); rocblas_init(hy, false);
\* hA_gold = hA_1; hA_2 = hA_1
InitData ==
    /\ pc = "init"
    /\ LET a == [p \in 1 .. loc.size_A |-> RandomValue(p)]
           x == [p \in 1 .. loc.size_x |-> RandomValue(loc.size_A + p)]
           y == [p \in 1 .. loc.size_y |-> RandomValue(loc.size_A + loc.size_x + p)]
       IN host' = [host EXCEPT !["hA_1"].data = a, !["hx"].data = x, !["hy"].data = y,
                               !["hA_gold"].data = a, !["hA_2"].data = a]
    /\ loc' = [loc EXCEPT !.k = 1]
    /\ pc' = "h2d"
    /\ UNCHANGED <<test, arg, dev, pending, pointer_mode, trace, stack, lib, seen>>

\* copy data from CPU to device: destination and source of each transfer
H2D == << <<"dA_1", "hA_1">>, <<"dA_2", "hA_1">>, <<"dx", "hx">>, <<"dy", "hy">>,
          <<"d_alpha", "halpha">> >>

\* CHECK_HIP_ERROR(d.transfer_from(h)), the loc.k-th of them
HostToDevice ==
    /\ pc = "h2d"
    /\ pending = <<>>
    /\ \E ok \in BOOLEAN :
          IF ok
          THEN LET d == H2D[loc.k][1]
                   h == H2D[loc.k][2]
               IN /\ dev' = [dev EXCEPT ![d].data = host[h].data, ![d].written = TRUE]
                  /\ trace' = Append(trace, Ev("h2d", d, h))
                  /\ loc' = [loc EXCEPT !.k = IF loc.k = Len(H2D) THEN 1 ELSE loc.k + 1]
                  /\ pc' = IF loc.k = Len(H2D) THEN "branch_check" ELSE "h2d"
          ELSE Return /\ UNCHANGED <<dev, trace, loc>>
    /\ UNCHANGED <<test, arg, host, pending, pointer_mode, stack, lib, seen>>

\* if(arg.unit_check || arg.norm_check)
CheckPhaseRuns(a) == a.unit_check \/ a.norm_check

BranchCheck ==
    /\ pc = "branch_check"
    /\ pc' = IF CheckPhaseRuns(arg) THEN "check_mode_host" ELSE "branch_timing"
    /\ UNCHANGED <<test, arg, loc, host, dev, pending, pointer_mode, trace, stack, lib, seen>>

\* CHECK_ROCBLAS_ERROR(rocblas_set_pointer_mode(handle, mode))
SetPointerMode(mode, next) ==
    \E ok \in BOOLEAN :
        IF ok
        THEN /\ pointer_mode' = mode
             /\ trace' = Append(trace, Ev("rocblas_set_pointer_mode", mode, ""))
             /\ pc' = next
        ELSE Return /\ UNCHANGED <<pointer_mode, trace>>

\* the pointer modes the check phase sets before its first and second call
CheckMode1 == "rocblas_pointer_mode_host"
CheckMode2 == "rocblas_pointer_mode_device"

\* a timing phase that runs in the mode the check phase ends in
TimingModeDevice == "rocblas_pointer_mode_device"

\* the pointer mode the timing phase sets
TimingMode == "rocblas_pointer_mode_host"

CheckSetHost ==
    /\ pc = "check_mode_host"
    /\ SetPointerMode(CheckMode1, "check_call1")
    /\ UNCHANGED <<test, arg, loc, host, dev, pending, stack, lib, seen>>

\* CHECK_ROCBLAS_ERROR(rocblas_spr2_fn(handle, uplo, N, alpha, dx, incx, dy, incy, A))
CheckedCall(alpha, A, next) ==
    \E ok \in BOOLEAN :
        LET e == Spr2Event("check", Handle, loc.uplo, alpha, "dx", "dy", A,
                           "rocblas_status_success", ok)
        IN /\ trace' = Append(trace, e)
           /\ pending' = Queue(e)
           /\ IF e.status = "rocblas_status_success" THEN pc' = next ELSE Return

\* the matrices the host-mode and the device-mode call of the check phase update
Call1Target == "dA_1"

\* a device-mode call that updates the matrix of the host-mode call
Call2TargetSame == "dA_1"

Call2Target == "dA_2"

CheckCall1 ==
    /\ pc = "check_call1"
    /\ CheckedCall("&h_alpha", Call1Target, "check_mode_device")
    /\ UNCHANGED <<test, arg, loc, host, dev, pointer_mode, stack, lib, seen>>

CheckSetDevice ==
    /\ pc = "check_mode_device"
    /\ SetPointerMode(CheckMode2, "check_call2")
    /\ UNCHANGED <<test, arg, loc, host, dev, pending, stack, lib, seen>>

CheckCall2 ==
    /\ pc = "check_call2"
    /\ CheckedCall("d_alpha", Call2Target, "cblas")
    /\ UNCHANGED <<test, arg, loc, host, dev, pointer_mode, stack, lib, seen>>

\* cpu_time_used = get_time_us_no_sync(); cblas_spr2<T>(...);
\* cpu_time_used = get_time_us_no_sync() - cpu_time_used
CpuReference ==
    /\ pc = "cblas"
    /\ host' = [host EXCEPT !["hA_gold"].data =
                   Spr2Update(loc.uplo, loc.N, loc.h_alpha, host["hx"].data, loc.incx,
                              host["hy"].data, loc.incy, host["hA_gold"].data)]
    /\ loc' = [loc EXCEPT !.assigned = @ \cup {"cpu_time_used"}, !.k = 1]
    /\ trace' = Append(trace, Ev("cblas_spr2", "hA_gold", ""))
    /\ pc' = "d2h"
    /\ UNCHANGED <<test, arg, dev, pending, pointer_mode, stack, lib, seen>>

\* copy output from device to CPU: destination and source of each transfer
D2H == << <<"hA_1", "dA_1">>, <<"hA_2", "dA_2">> >>

\* CHECK_HIP_ERROR(h.transfer_from(d)), the loc.k-th of them; the copy waits
\* for the kernels queued before it
DeviceToHost ==
    /\ pc = "d2h"
    /\ pending = <<>>
    /\ \E ok \in BOOLEAN :
          IF ok
          THEN LET h == D2H[loc.k][1]
                   d == D2H[loc.k][2]
               IN /\ host' = [host EXCEPT ![h].data = dev[d].data]
                  /\ trace' = Append(trace, Ev("d2h", h, d))
                  /\ loc' = [loc EXCEPT !.k = IF loc.k = Len(D2H) THEN 1 ELSE loc.k + 1]
                  /\ pc' = IF loc.k = Len(D2H) THEN "unit" ELSE "d2h"
          ELSE Return /\ UNCHANGED <<host, trace, loc>>
    /\ UNCHANGED <<test, arg, dev, pending, pointer_mode, stack, lib, seen>>

\* one comparison of a result against hA_gold
Compare(op, b) == [op |-> op, a |-> "hA_gold", b |-> b,
                   gold |-> host["hA_gold"].data, val |-> host[b].data]


\* a unit comparison guarded by the other flag
UnitCheckRunsOnNorm(a) == a.norm_check

\* if(arg.unit_check)
UnitCheckRuns(a) == a.unit_check
\* if(arg.norm_check)
NormCheckRuns(a) == a.norm_check

UnitCheck ==
    /\ pc = "unit"
    /\ trace' = IF UnitCheckRuns(arg)
                THEN trace \o <<Compare("unit_check", "hA_1"), Compare("unit_check", "hA_2")>>
                ELSE trace
    /\ pc' = "norm"
    /\ UNCHANGED <<test, arg, loc, host, dev, pending, pointer_mode, stack, lib, seen>>

NormCheck ==
    /\ pc = "norm"
    /\ IF NormCheckRuns(arg)
       THEN /\ trace' = trace \o <<Compare("norm_check", "hA_1"), Compare("norm_check", "hA_2")>>
            /\ loc' = [loc EXCEPT
                  !.rocblas_error_1 = NormError(host["hA_gold"].data, host["hA_1"].data),
                  !.rocblas_error_2 = NormError(host["hA_gold"].data, host["hA_2"].data),
                  !.assigned = @ \cup {"rocblas_error_1", "rocblas_error_2"}]
       ELSE UNCHANGED <<trace, loc>>
    /\ pc' = "branch_timing"
    /\ UNCHANGED <<test, arg, host, dev, pending, pointer_mode, stack, lib, seen>>

\* the values arg.cold_iters and arg.iters may hold
IterCounts == -1 .. MaxIters

\* if(arg.timing): number_cold_calls, number_hot_calls and the pointer mode
BranchTiming ==
    /\ pc = "branch_timing"
    /\ IF arg.timing
       THEN /\ \E c \in IterCounts, h \in IterCounts :
                  loc' = [loc EXCEPT !.number_cold_calls = c, !.number_hot_calls = h,
                                     !.iter = 0]
            /\ SetPointerMode(TimingMode, "cold")
       ELSE Return /\ UNCHANGED <<loc, pointer_mode, trace>>
    /\ UNCHANGED <<test, arg, host, dev, pending, stack, lib, seen>>


\* a loop that runs once more
LoopContinuesInclusive(iter, n) == iter <= n

\* for(int iter = 0; iter < n; iter++)
LoopContinues(iter, n) == iter < n

\* rocblas_spr2_fn(handle, uplo, N, &h_alpha, dx, incx, dy, incy, dA_1);
\* the status is dropped, so nothing the function does depends on it
TimedCall(phase) ==
    LET e == Spr2Event(phase, Handle, loc.uplo, "&h_alpha", "dx", "dy", "dA_1", "none", TRUE)
    IN /\ trace' = Append(trace, e)
       /\ pending' = Queue(e)
       /\ loc' = [loc EXCEPT !.iter = loc.iter + 1]

ColdLoop ==
    /\ pc = "cold"
    /\ IF LoopContinues(loc.iter, loc.number_cold_calls)
       THEN TimedCall("cold") /\ UNCHANGED pc
       ELSE pc' = "tstart" /\ UNCHANGED <<trace, pending, loc>>
    /\ UNCHANGED <<test, arg, host, dev, pointer_mode, stack, lib, seen>>

\* get_time_us_sync(stream): waits for the stream to drain, then reads the clock
TimeSync(which) == [op |-> "get_time_us_sync", a |-> which, b |-> "",
                    launched |-> Launched, executed |-> Executed]

\* CHECK_ROCBLAS_ERROR(rocblas_get_stream(handle, &stream));
\* gpu_time_used = get_time_us_sync(stream)
TimerStart ==
    /\ pc = "tstart"
    /\ \/ Return /\ UNCHANGED <<trace, loc>>
       \/ /\ pending = <<>>
          /\ trace' = Append(trace, TimeSync("start"))
          /\ loc' = [loc EXCEPT !.iter = 0]
          /\ pc' = "hot"
    /\ UNCHANGED <<test, arg, host, dev, pending, pointer_mode, stack, lib, seen>>

HotLoop ==
    /\ pc = "hot"
    /\ IF LoopContinues(loc.iter, loc.number_hot_calls)
       THEN TimedCall("hot") /\ UNCHANGED pc
       ELSE pc' = "tstop" /\ UNCHANGED <<trace, pending, loc>>
    /\ UNCHANGED <<test, arg, host, dev, pointer_mode, stack, lib, seen>>

\* gpu_time_used = get_time_us_sync(stream) - gpu_time_used
TimerStop ==
    /\ pc = "tstop"
    /\ pending = <<>>
    /\ trace' = Append(trace, TimeSync("stop"))
    /\ loc' = [loc EXCEPT !.assigned = @ \cup {"gpu_time_used"}]
    /\ pc' = "log"
    /\ UNCHANGED <<test, arg, host, dev, pending, pointer_mode, stack, lib, seen>>

\* the locals log_args is passed by value
LoggedLocals == {"gpu_time_used", "cpu_time_used", "rocblas_error_1", "rocblas_error_2"}

\* ArgumentModel<...>{}.log_args<T>(rocblas_cout, arg, gpu_time_used, ...,
\*                                  cpu_time_used, rocblas_error_1, rocblas_error_2)
LogArgs ==
    /\ pc = "log"
    /\ trace' = Append(trace, [op |-> "log_args", a |-> "", b |-> "",
                               unassigned |-> LoggedLocals \ loc.assigned])
    /\ Return
    /\ UNCHANGED <<test, arg, loc, host, dev, pending, pointer_mode, stack, lib, seen>>


\* an exit that leaves the first matrix allocated
DestroyedAtExitLeaky(t) == DevNames(t) \ {"dA_1"}

\* the device vectors whose destructors run when the function returns
DestroyedAtExit(t) == DevNames(t)

\* the function returns: the locals are destroyed in the reverse order of
\* their declarations, the device vectors (hipFree waits for the device to be
\* idle), the host vectors, and the handle last
ScopeExit ==
    /\ pc = "ret"
    /\ pending = <<>>
    /\ LET gone == SelectSeq([i \in 1 .. Len(DevOrder) |-> DevOrder[Len(DevOrder) + 1 - i]],
                             LAMBDA n : n \in DestroyedAtExit(test) /\ dev[n].state = "alloc")
       IN /\ trace' = trace \o [i \in 1 .. Len(gone) |-> Ev("hipFree", gone[i], "")]
                            \o <<Ev("rocblas_destroy_handle", "", "")>>
          /\ dev' = [n \in AllDevNames |->
                        IF n \in DestroyedAtExit(test) /\ dev[n].state = "alloc"
                        THEN [dev[n] EXCEPT !.state = "freed"] ELSE dev[n]]
    /\ host' = [n \in HostNames |->
                   IF host[n].state = "alloc" THEN [host[n] EXCEPT !.state = "freed"]
                   ELSE host[n]]
    /\ Destruct
    /\ pc' = "done"
    /\ UNCHANGED <<test, arg, loc, pending, pointer_mode, seen>>

\* the device executes the kernel at the head of the stream
KernelRun ==
    /\ pending # <<>>
    /\ LET k == Head(pending)
           alpha == IF k.alpha = "d_alpha" THEN dev["d_alpha"].data[1] ELSE k.h_alpha
       IN dev' = [dev EXCEPT ![k.A].data =
                     Spr2Update(k.uplo, loc.N, alpha, dev["dx"].data, loc.incx,
                                dev["dy"].data, loc.incy, dev[k.A].data)]
    /\ pending' = Tail(pending)
    /\ UNCHANGED <<pc, test, arg, loc, host, pointer_mode, trace, stack, lib, seen>>

Next ==
    \/ Enter \/ ArgCheck \/ ComputeSizes \/ HostAlloc \/ HostCheck \/ DevAlloc \/ DevCheck
    \/ BadArgProbe \/ InitData \/ HostToDevice \/ BranchCheck
    \/ CheckSetHost \/ CheckCall1 \/ CheckSetDevice \/ CheckCall2 \/ CpuReference
    \/ DeviceToHost \/ UnitCheck \/ NormCheck
    \/ BranchTiming \/ ColdLoop \/ TimerStart \/ HotLoop \/ TimerStop \/ LogArgs
    \/ ScopeExit \/ KernelRun

Spec == InitRun /\ [][Next]_vars

(***************************************************************************)
(* The argument check and the size arithmetic on the edges of rocblas_int. *)
(***************************************************************************)
EdgeInts == {IntMin, IntMin + 1, -1, 0, 1, 2, IntMax - 1, IntMax}

InitSizes ==
    /\ pc = "start"
    /\ test = "spr2"
    /\ arg \in [N : EdgeInts, incx : EdgeInts, incy : EdgeInts, alpha : Alphas, uplo : {"U"},
                unit_check : {FALSE}, norm_check : {FALSE}, timing : {FALSE}]
    /\ loc = NoLoc
    /\ host = NoHost
    /\ dev = NoDev
    /\ pending = <<>>
    /\ pointer_mode = "rocblas_pointer_mode_host"
    /\ trace = <<>>
    /\ stack = <<>>
    /\ lib = NoLib
    /\ seen = NoSeen

NextSizes == Enter \/ ArgCheck \/ ComputeSizes \/ ScopeExit

SpecSizes == InitSizes /\ [][NextSizes]_vars

(***************************************************************************)
(* Properties.                                                             *)
(***************************************************************************)
\* the positions of the trace whose entry passes a test
Idx(Test(_)) == {i \in 1 .. Len(trace) : Test(trace[i])}
Before(S, T) == \A i \in S, j \in T : i < j
IsCall(e) == e.op = "spr2"
CallsOf(phase) == Idx(LAMBDA e : IsCall(e) /\ e.phase = phase)
OpIdx(op) == Idx(LAMBDA e : e.op = op)
DestroySet == {lib.destroys[i] : i \in 1 .. Len(lib.destroys)}

InvalidArgs(e) ==
    {a \in {"handle", "uplo", "N", "alpha", "x", "incx", "y", "incy", "A"} :
        CASE a = "handle" -> e.handle = NullHandle \/ ~e.live
          [] a = "uplo" -> e.uplo \notin {"U", "L"}
          [] a = "N" -> e.N # 100
          [] a = "alpha" -> e.alpha = "null"
          [] a = "x" -> e.x # "dx" \/ dev["dx"].state # "alloc"
          [] a = "incx" -> e.incx # 1
          [] a = "y" -> e.y # "dy" \/ dev["dy"].state # "alloc"
          [] a = "incy" -> e.incy # 1
          [] a = "A" -> e.A # "dA_1" \/ dev["dA_1"].state # "alloc"}

C2_Expected == <<
    [bad |-> "uplo", uplo |-> "F", expect |-> "rocblas_status_invalid_value"],
    [bad |-> "x", uplo |-> "U", expect |-> "rocblas_status_invalid_pointer"],
    [bad |-> "y", uplo |-> "U", expect |-> "rocblas_status_invalid_pointer"],
    [bad |-> "A", uplo |-> "U", expect |-> "rocblas_status_invalid_pointer"],
    [bad |-> "handle", uplo |-> "U", expect |-> "rocblas_status_invalid_handle"] >>

\* C2: testing_spr2_bad_arg makes exactly five probes, each with one invalid
\* argument and the rest valid: full fill mode -> invalid_value, null x,
\* null y, null A -> invalid_pointer, null handle -> invalid_handle.
C2_BadArgProbes ==
    (test = "bad_arg" /\ pc = "ret") =>
        LET P == SelectSeq(trace, IsCall)
        IN IF \E n \in DevNames(test) : dev[n].state # "alloc"
           THEN P = <<>>
           ELSE /\ Len(P) = 5
                /\ \A i \in 1 .. 5 :
                      /\ InvalidArgs(P[i]) = {C2_Expected[i].bad}
                      /\ P[i].uplo = C2_Expected[i].uplo
                      /\ P[i].expect = C2_Expected[i].expect
                      /\ (C2_Expected[i].bad \in {"x", "y", "A"}) =>
                            P[i][C2_Expected[i].bad] = "null"
                      /\ (C2_Expected[i].bad = "handle") => P[i].handle = NullHandle

C2_Witness ==
    /\ test = "bad_arg"
    /\ pc = "ret"
    /\ Len(SelectSeq(trace, IsCall)) = 5

\* C3: in testing_spr2, N < 0 or incx == 0 or incy == 0 makes exactly one
\* spr2 call, all four pointers null, expecting invalid_size, and the run
\* returns with nothing allocated, copied, computed, compared or timed; any
\* other argument set makes no such probe.
C3_ArgCheck ==
    (test = "spr2" /\ pc \notin {"start", "argcheck"}) =>
        IF arg.N < 0 \/ arg.incx = 0 \/ arg.incy = 0
        THEN /\ pc \in {"ret", "done"}
             /\ Idx(IsCall) = {1}
             /\ trace[1].phase = "argcheck"
             /\ trace[1].alpha = "null" /\ trace[1].x = "null"
             /\ trace[1].y = "null" /\ trace[1].A = "null"
             /\ trace[1].N = arg.N /\ trace[1].incx = arg.incx /\ trace[1].incy = arg.incy
             /\ trace[1].live
             /\ trace[1].expect = "rocblas_status_invalid_size"
             /\ \A i \in 2 .. Len(trace) : trace[i].op = "rocblas_destroy_handle"
             /\ \A n \in HostNames : host[n].state = "none"
             /\ \A n \in AllDevNames : dev[n].state = "none"
        ELSE CallsOf("argcheck") = {}

C3_Witness ==
    /\ test = "spr2"
    /\ pc = "done"
    /\ arg.N > 0 /\ arg.incx = 0 /\ arg.incy < 0
    /\ Len(trace) = 2

CheckIdx == CallsOf("check") \cup OpIdx("cblas_spr2")
CmpIdx == OpIdx("unit_check") \cup OpIdx("norm_check")

\* C4: with unit_check or norm_check set the host-to-device copies come
\* first, then the two vendor calls and the reference, then the two
\* device-to-host copies, then the comparisons; a comparison never reads a
\* result before its copy back; the unit comparison runs iff unit_check, the
\* norm comparison iff norm_check, and with neither set the check phase
\* makes no call and no comparison.
C4_CheckPhaseOrder ==
    LET h2d == OpIdx("h2d")
        chk == CheckIdx
        d2h == OpIdx("d2h")
        unit == OpIdx("unit_check")
        norm == OpIdx("norm_check")
        cmp == unit \cup norm
    IN /\ Before(h2d, chk)
       /\ chk # {} => {trace[i].a : i \in h2d} = {"dA_1", "dA_2", "dx", "dy", "d_alpha"}
       /\ Before(chk, d2h)
       /\ d2h # {} =>
             Cardinality(CallsOf("check")) = 2 /\ Cardinality(OpIdx("cblas_spr2")) = 1
       /\ Before(d2h, cmp)
       /\ \A j \in cmp :
             /\ trace[j].a = "hA_gold"
             /\ trace[j].b \in {"hA_1", "hA_2"}
             /\ \E i \in d2h : i < j /\ trace[i].a = trace[j].b
       /\ unit # {} => arg.unit_check
       /\ norm # {} => arg.norm_check
       /\ (~arg.unit_check /\ ~arg.norm_check) => chk = {} /\ cmp = {} /\ d2h = {}
       /\ pc = "branch_timing" =>
             /\ {trace[j].b : j \in unit} = IF arg.unit_check THEN {"hA_1", "hA_2"} ELSE {}
             /\ {trace[j].b : j \in norm} = IF arg.norm_check THEN {"hA_1", "hA_2"} ELSE {}
             /\ Cardinality(unit) = IF arg.unit_check THEN 2 ELSE 0
             /\ Cardinality(norm) = IF arg.norm_check THEN 2 ELSE 0
             /\ Cardinality(chk) = IF arg.unit_check \/ arg.norm_check THEN 3 ELSE 0

C4_Witness ==
    /\ pc = "branch_timing"
    /\ arg.unit_check /\ ~arg.norm_check
    /\ loc.N = 2
    /\ Cardinality(CmpIdx) = 2

Count(S, n) == Cardinality({i \in S : trace[i].a = n})

\* C5: however testing_spr2 or testing_spr2_bad_arg ends, the handle and
\* every device buffer the run acquired are released exactly once by the
\* time it has returned, and no spr2 call is made with the handle or a buffer
\* already released.
C5_ReleasedAtExit ==
    LET calls == Idx(IsCall)
        mallocs == OpIdx("hipMalloc")
        frees == OpIdx("hipFree")
    IN /\ \A i \in calls :
             /\ trace[i].handle # NullHandle => trace[i].live
             /\ trace[i].alloc
       /\ Before(calls, frees \cup OpIdx("rocblas_destroy_handle"))
       /\ Len(lib.destroys) <= 1
       /\ \A n \in AllDevNames :
             /\ Count(mallocs, n) <= 1
             /\ Count(frees, n) <= Count(mallocs, n)
             /\ dev[n].state = "alloc" => Count(mallocs, n) = 1 /\ Count(frees, n) = 0
       /\ pc = "done" =>
             /\ stack = <<>>
             /\ lib.made = 1
             /\ lib.destroys = <<1>>
             /\ \A n \in AllDevNames :
                   /\ dev[n].state # "alloc"
                   /\ Count(frees, n) = Count(mallocs, n)

C5_Witness ==
    /\ pc = "done"
    /\ test = "spr2"
    /\ Cardinality(OpIdx("hipFree")) = 5
    /\ \E i \in CallsOf("check") : trace[i].status = "rocblas_status_internal_error"

\* C6: each device buffer has the element count of its host counterpart;
\* right before the first spr2 call dA_1, dA_2 and hA_gold hold the same
\* initial matrix, dx = hx, dy = hy, d_alpha = h_alpha; the host-mode call
\* updates dA_1 alone, the device-mode call dA_2 alone and the reference
\* hA_gold alone, each once.
C6_LikeForLike ==
    /\ (test = "spr2" /\ dev["dA_1"].state # "none") =>
          /\ dev["dA_1"].size = Len(host["hA_1"].data)
          /\ dev["dA_2"].size = Len(host["hA_2"].data)
          /\ dev["dA_1"].size = Len(host["hA_gold"].data)
          /\ dev["dx"].size = Len(host["hx"].data)
          /\ dev["dy"].size = Len(host["hy"].data)
          /\ dev["d_alpha"].size = Len(host["halpha"].data)
          /\ dev["dA_1"].size = (arg.N * (arg.N + 1)) \div 2
          /\ dev["dx"].size = arg.N * Abs(arg.incx)
          /\ dev["dy"].size = arg.N * Abs(arg.incy)
          /\ dev["d_alpha"].size = 1
          /\ \A n \in AllDevNames : dev[n].written => Len(dev[n].data) = dev[n].size
    /\ pc = "check_call1" =>
          /\ Idx(IsCall) = {}
          /\ \A n \in AllDevNames : dev[n].written
          /\ dev["dA_1"].data = host["hA_gold"].data
          /\ dev["dA_2"].data = host["hA_gold"].data
          /\ dev["dx"].data = host["hx"].data
          /\ dev["dy"].data = host["hy"].data
          /\ dev["d_alpha"].data = <<arg.alpha>>
          /\ loc.h_alpha = arg.alpha
    /\ (pc = "d2h" /\ loc.k = 1 /\ pending = <<>>) =>
          LET once == Spr2Update(arg.uplo, arg.N, arg.alpha, host["hx"].data, arg.incx,
                                 host["hy"].data, arg.incy, host["hA_1"].data)
          IN /\ dev["dA_1"].data = once
             /\ dev["dA_2"].data = once
             /\ host["hA_gold"].data = once
             /\ dev["dx"].data = host["hx"].data
             /\ dev["dy"].data = host["hy"].data
             /\ dev["d_alpha"].data = <<arg.alpha>>
             /\ {<<trace[i].A, trace[i].alpha>> : i \in CallsOf("check")} =
                   {<<"dA_1", "&h_alpha">>, <<"dA_2", "d_alpha">>}
             /\ Cardinality(CallsOf("check")) = 2
             /\ Cardinality(OpIdx("cblas_spr2")) = 1

C6_Witness ==
    /\ pc = "d2h" /\ loc.k = 1 /\ pending = <<>>
    /\ arg.N = 2 /\ arg.incx = -1 /\ arg.incy = 1 /\ arg.uplo = "L"
    /\ dev["dA_1"].data # host["hA_1"].data

TimingPcs == {"cold", "tstart", "hot", "tstop", "log"}
InTiming(e) == (IsCall(e) /\ e.phase \in {"cold", "hot"})
               \/ e.op \in {"get_time_us_sync", "log_args"}
Tag(e) == IF IsCall(e) THEN e.phase ELSE IF e.op = "log_args" THEN "log" ELSE e.a
Rep(x, n) == [i \in 1 .. n |-> x]
IsPrefix(p, q) == Len(p) <= Len(q) /\ \A i \in 1 .. Len(p) : p[i] = q[i]
TimingTags == LET T == SelectSeq(trace, InTiming) IN [i \in 1 .. Len(T) |-> Tag(T[i])]
TimingPlan == Rep("cold", Max(loc.number_cold_calls, 0)) \o <<"start">>
              \o Rep("hot", Max(loc.number_hot_calls, 0)) \o <<"stop", "log">>

\* C7: the timing phase starts after every comparison; it makes
\* max(cold_iters, 0) warm-up calls, takes the start time, makes
\* max(iters, 0) calls, takes the end time and logs once; each timestamp is
\* taken with every kernel issued before it finished, so the interval holds
\* the hot calls and no warm-up call; the updates made while timing change no
\* compared result.
C7_TimingPhase ==
    LET timing == Idx(InTiming)
        tags == TimingTags
        plan == TimingPlan
    IN /\ Before(CmpIdx \cup CheckIdx \cup OpIdx("d2h"), timing)
       /\ timing # {} => arg.timing
       /\ pc \in TimingPcs =>
             /\ arg.timing
             /\ Cardinality(OpIdx("unit_check")) = IF arg.unit_check THEN 2 ELSE 0
             /\ Cardinality(OpIdx("norm_check")) = IF arg.norm_check THEN 2 ELSE 0
       /\ IsPrefix(tags, plan)
       /\ OpIdx("log_args") # {} => tags = plan
       /\ pc = "log" => Len(tags) = Len(plan) - 1
       /\ \A i \in OpIdx("get_time_us_sync") : trace[i].executed = trace[i].launched
       /\ \A j \in CmpIdx :
             /\ host[trace[j].b].data = trace[j].val
             /\ host["hA_gold"].data = trace[j].gold

C7_Witness ==
    /\ OpIdx("log_args") # {}
    /\ loc.number_cold_calls = 1 /\ loc.number_hot_calls = 1
    /\ arg.N = 2 /\ arg.norm_check
    /\ Launched = 4
    /\ dev["dA_1"].data # host["hA_1"].data

\* C8: every run that reaches log_args has assigned cpu_time_used,
\* rocblas_error_1 and rocblas_error_2 before passing them, whatever
\* unit_check and norm_check are.
C8_LoggedAssigned ==
    \A i \in OpIdx("log_args") :
        trace[i].unassigned \cap {"cpu_time_used", "rocblas_error_1", "rocblas_error_2"} = {}

\* C9: every spr2 call past the argument check that passes &h_alpha is made
\* in host pointer mode, and the call that passes d_alpha in device pointer
\* mode, whatever unit_check, norm_check and timing are.
C9_PointerMode ==
    \A i \in Idx(IsCall) :
        trace[i].phase \in {"check", "cold", "hot"} =>
            /\ trace[i].alpha \in {"&h_alpha", "d_alpha"}
            /\ trace[i].alpha = "&h_alpha" => trace[i].mode = "rocblas_pointer_mode_host"
            /\ trace[i].alpha = "d_alpha" => trace[i].mode = "rocblas_pointer_mode_device"

C9_Witness ==
    /\ \E i \in CallsOf("check") : trace[i].alpha = "d_alpha"
    /\ CallsOf("cold") # {}
    /\ CallsOf("hot") # {}

\* C10: for every N >= 0 and nonzero incx, incy that pass the argument check
\* the sizes computed are N(N+1)/2, N*|incx| and N*|incy|, no step wrapping.
C10_SizesExact ==
    (test = "spr2" /\ pc = "hostalloc") =>
        /\ loc.size_A = (arg.N * (arg.N + 1)) \div 2
        /\ loc.size_x = arg.N * Abs(arg.incx)
        /\ loc.size_y = arg.N * Abs(arg.incy)

====
